---- MODULE Spec2Model ----
(***************************************************************************)
(* A model of the LFU cache of ozedd-ee/lfu-cache: the key table, the      *)
(* frequency index with its buckets, the TTL clock, the background         *)
(* cleanup loop and the hit/miss/eviction counters.                        *)
(*                                                                         *)
(* Every section of code that runs under c.mu.Lock() is one atomic action. *)
(* Get releases its read lock before it takes the write lock, so a Get of   *)
(* a key in the map is a sequence of steps: the lookup, the expiry test,   *)
(* then either the locked deletion with its miss, or the locked promotion  *)
(* followed by the hit and the return.                                     *)
(***************************************************************************)
EXTENDS Integers, Sequences, FiniteSets, TLC

\* ------------------------------------------------------------------ bounds
\* The largest capacity New is called with.
MaxCap == 2
\* The calls (Get, Set, Stop) of a run of a cache of the largest capacity.
MaxCalls == 4
\* The entry structs alive at once.
MaxEnt == 4
\* The clock runs from 0 to MaxTime.
MaxTime == 2
\* The largest ttl New is called with.
MaxTTL == 1
\* The goroutines that may be inside Get at once.
NumGetters == 2

\* A cache of capacity c is used with c + 1 keys, enough to overfill it, and
\* the smaller the cache, the longer the runs explored.
KeysOf(c) == 1..(c + 1)
Budget(c) == MaxCalls + (MaxCap - c)
Keys == KeysOf(MaxCap)
Getters == 1..NumGetters
EntIds == 1..MaxEnt

\* A nil *entry, and the zero value of V.
Nil == 0
Zero == 0

VARIABLES
    capacity,     \* c.capacity
    ttl,          \* c.ttl, in clock units
    onEvict,      \* whether c.onEvict is non-nil
    size,         \* c.size
    keyMap,       \* c.keyMap: key -> entry (Nil: the key is not in the map)
    freqMap,      \* c.freqMap: frequency -> list of entries, front first
    minFreq,      \* c.minFreq
    ents,         \* the heap of entry structs
    hits, misses, evictions,   \* the atomic counters
    stop,         \* whether channel c.stop is closed
    sweeper,      \* the cleanup goroutine: "Running" or "Stopped"
    panic,        \* "" or the runtime panic that ended the process
    now,          \* the wall clock
    pc, gkey, gent,            \* each Get in flight: position, key, ent
    calls,        \* Get, Set and Stop calls started so far
    cbLog,        \* the onEvict calls of the latest step, in order
    lru,          \* entries by latest touch, most recent first
    last,         \* the latest step: its operation and arguments
    ryw           \* the latest Set, while nothing but the Get that follows
                  \* it has run since: its key and value, and that Get

vars == <<capacity, ttl, onEvict, size, keyMap, freqMap, minFreq, ents, hits,
          misses, evictions, stop, sweeper, panic, now, pc, gkey, gent,
          calls, cbLog, lru, last, ryw>>

NoEnt == [key |-> 0, value |-> Zero, frequency |-> 0, createdAt |-> 0]

NilDeref == "nil pointer dereference"
CloseClosed == "close of closed channel"

\* ------------------------------------------------ freqList (entry.go)
pushFront(l, e) == <<e>> \o l

\* list.Remove unlinks e only if e is an element of this list.
remove(l, e) == SelectSeq(l, LAMBDA x : x # e)

\* The back element, or Nil for an empty list.
Oldest(l) == IF Len(l) = 0 THEN Nil ELSE l[Len(l)]

removeOldest(l) == IF Len(l) = 0 THEN l ELSE SubSeq(l, 1, Len(l) - 1)

isEmpty(l) == Len(l) = 0

\* ---------------------------------------------------- the cache as a value
\* The fields the locked sections read and write, with the callback calls
\* made so far in the step and the panic raised, if any.
Cache ==
    [keyMap |-> keyMap, freqMap |-> freqMap, minFreq |-> minFreq,
     ents |-> ents, size |-> size, evictions |-> evictions,
     cb |-> <<>>, panic |-> ""]

\* delete(c.freqMap, f)
DeleteBucket(fm, f) == [x \in (DOMAIN fm) \ {f} |-> fm[x]]

\* c.freqMap[f] = list
PutBucket(fm, f, l) == [x \in (DOMAIN fm) \cup {f} |-> IF x = f THEN l ELSE fm[x]]

\* if c.onEvict != nil { c.onEvict(key, value) }
Notify(cb, k, v) == IF onEvict THEN Append(cb, <<k, v>>) ELSE cb

\* A promotion that raises minFreq whenever the old bucket empties, without
\* the test c.minFreq == oldFreq.
incrementRaisesAlways(c, e) ==
    LET oldFreq == c.ents[e].frequency
        newFreq == oldFreq + 1
        ents1 == [c.ents EXCEPT ![e].frequency = newFreq]
    IN  IF oldFreq \notin DOMAIN c.freqMap
        THEN [c EXCEPT !.ents = ents1, !.panic = NilDeref]
        ELSE
        LET l1 == remove(c.freqMap[oldFreq], e)
            emptied == isEmpty(l1)
            fm1 == IF emptied THEN DeleteBucket(c.freqMap, oldFreq)
                   ELSE PutBucket(c.freqMap, oldFreq, l1)
            mf1 == IF emptied THEN c.minFreq + 1 ELSE c.minFreq
            l2 == IF newFreq \in DOMAIN fm1 THEN fm1[newFreq] ELSE <<>>
        IN  [c EXCEPT !.ents = ents1,
                      !.freqMap = PutBucket(fm1, newFreq, pushFront(l2, e)),
                      !.minFreq = mf1]

increment(c, e) ==
    LET oldFreq == c.ents[e].frequency
        newFreq == oldFreq + 1
        ents1 == [c.ents EXCEPT ![e].frequency = newFreq]
    IN  IF oldFreq \notin DOMAIN c.freqMap
        THEN [c EXCEPT !.ents = ents1, !.panic = NilDeref]
        ELSE
        LET l1 == remove(c.freqMap[oldFreq], e)
            emptied == isEmpty(l1)
            fm1 == IF emptied THEN DeleteBucket(c.freqMap, oldFreq)
                   ELSE PutBucket(c.freqMap, oldFreq, l1)
            mf1 == IF emptied /\ c.minFreq = oldFreq THEN c.minFreq + 1
                   ELSE c.minFreq
            l2 == IF newFreq \in DOMAIN fm1 THEN fm1[newFreq] ELSE <<>>
        IN  [c EXCEPT !.ents = ents1,
                      !.freqMap = PutBucket(fm1, newFreq, pushFront(l2, e)),
                      !.minFreq = mf1]

evict(c) ==
    IF c.minFreq \notin DOMAIN c.freqMap THEN c
    ELSE
    LET list == c.freqMap[c.minFreq]
        evicted == Oldest(list)
        l1 == removeOldest(list)
    IN  IF evicted = Nil THEN c
        ELSE [c EXCEPT
                !.keyMap = [c.keyMap EXCEPT ![c.ents[evicted].key] = Nil],
                !.size = c.size - 1,
                !.evictions = c.evictions + 1,
                !.freqMap = IF isEmpty(l1) THEN DeleteBucket(c.freqMap, c.minFreq)
                            ELSE PutBucket(c.freqMap, c.minFreq, l1),
                !.cb = Notify(c.cb, c.ents[evicted].key, c.ents[evicted].value)]

deleteKey(c, key, e) ==
    LET f == c.ents[e].frequency
    IN  IF f \notin DOMAIN c.freqMap THEN [c EXCEPT !.panic = NilDeref]
        ELSE
        LET l1 == remove(c.freqMap[f], e)
            emptied == isEmpty(l1)
        IN  [c EXCEPT
                !.freqMap = IF emptied THEN DeleteBucket(c.freqMap, f)
                            ELSE PutBucket(c.freqMap, f, l1),
                !.minFreq = IF emptied /\ c.minFreq = f THEN c.minFreq + 1
                            ELSE c.minFreq,
                !.keyMap = [c.keyMap EXCEPT ![key] = Nil],
                !.size = c.size - 1,
                !.evictions = c.evictions + 1,
                !.cb = Notify(c.cb, c.ents[e].key, c.ents[e].value)]


\* ------------------------------------------------------- the entry heap
\* Entries some bucket holds.
Linked(fm) == UNION {{fm[f][i] : i \in 1..Len(fm[f])} : f \in DOMAIN fm}

\* Entries the key table, a bucket or a Get in flight still points to; the
\* garbage collector frees the others.
Live(km, fm, ge) ==
    ({km[k] : k \in Keys} \cup Linked(fm) \cup {ge[g] : g \in Getters}) \ {Nil}

\* &entry{...}: the address of a fresh allocation.
NewEnt(c) ==
    CHOOSE e \in EntIds \ Live(c.keyMap, c.freqMap, gent) :
        \A x \in EntIds \ Live(c.keyMap, c.freqMap, gent) : e <= x

Touch(l, e) == <<e>> \o remove(l, e)

Step(op, k, v) == [op |-> op, key |-> k, val |-> v]

\* Set(k, v) has just returned and no call has begun since (g = 0), or only
\* the Get of goroutine g has.
Written(k, v, g) == [key |-> k, val |-> v, g |-> g]
NoWrite == Written(0, Zero, 0)

\* The Get of goroutine g takes a step: it stays the only call since the Set.
Alone(g) == IF ryw.g = g THEN ryw ELSE NoWrite

\* The step's result c becomes the state; ge are the entries the Gets hold
\* after it and l is the touch order after it.
Commit(c, ge, l) ==
    LET live == Live(c.keyMap, c.freqMap, ge)
    IN  /\ keyMap' = c.keyMap
        /\ freqMap' = c.freqMap
        /\ minFreq' = c.minFreq
        /\ size' = c.size
        /\ evictions' = c.evictions
        /\ cbLog' = c.cb
        /\ panic' = c.panic
        /\ ents' = [e \in EntIds |-> IF e \in live THEN c.ents[e] ELSE NoEnt]
        /\ lru' = SelectSeq(l, LAMBDA e : e \in live)
        /\ gent' = ge

\* ------------------------------------------------------------------- New
Init ==
    /\ capacity \in 0..MaxCap
    /\ ttl \in 1..MaxTTL
    /\ onEvict \in BOOLEAN
    /\ size = 0
    /\ keyMap = [k \in Keys |-> Nil]
    /\ freqMap = [f \in {} |-> <<>>]
    /\ minFreq = 0
    /\ ents = [e \in EntIds |-> NoEnt]
    /\ hits = 0 /\ misses = 0 /\ evictions = 0
    /\ stop = FALSE
    /\ sweeper = "Running"
    /\ panic = ""
    /\ now = 0
    /\ pc = [g \in Getters |-> "idle"]
    /\ gkey = [g \in Getters |-> 0]
    /\ gent = [g \in Getters |-> Nil]
    /\ calls = 0
    /\ cbLog = <<>>
    /\ lru = <<>>
    /\ last = Step("New", 0, Zero)
    /\ ryw = NoWrite

\* ------------------------------------------------------------------- Set
\* A Set without the capacity test: it inserts into a cache of capacity 0.
SetNotDisabled(k, v) ==
    /\ capacity = 0
    /\ keyMap[k] = Nil
    /\ LET c1 == IF size >= capacity THEN evict(Cache) ELSE Cache
           ent == NewEnt(c1)
           c2 == [c1 EXCEPT
                    !.ents[ent] = [key |-> k, value |-> v,
                                   frequency |-> 1, createdAt |-> now],
                    !.keyMap[k] = ent,
                    !.freqMap = PutBucket(c1.freqMap, 1, <<ent>>),
                    !.minFreq = 1,
                    !.size = c1.size + 1]
       IN  Commit(c2, gent, Touch(lru, ent))

\* if c.capacity == 0 { return }
SetDisabled(k, v) ==
    /\ capacity = 0
    /\ Commit(Cache, gent, lru)

\* An update that forgets ent.createdAt = time.Now().
SetExistingNoRefresh(k, v) ==
    /\ capacity # 0
    /\ keyMap[k] # Nil
    /\ LET ent == keyMap[k]
           c1 == [Cache EXCEPT !.ents[ent].value = v]
       IN  Commit(increment(c1, ent), gent, Touch(lru, ent))

\* The key is in the map: new value, new timestamp, one more access.
SetExisting(k, v) ==
    /\ capacity # 0
    /\ keyMap[k] # Nil
    /\ LET ent == keyMap[k]
           c1 == [Cache EXCEPT !.ents[ent].value = v,
                               !.ents[ent].createdAt = now]
       IN  Commit(increment(c1, ent), gent, Touch(lru, ent))

\* The test with its comparison off by one.
FullOffByOne(c) == c.size > capacity

\* if c.size >= c.capacity
Full(c) == c.size >= capacity

\* An insert that forgets c.minFreq = 1.
SetNewKeepsMinFreq(k, v) ==
    /\ capacity # 0
    /\ keyMap[k] = Nil
    /\ LET c1 == IF Full(Cache) THEN evict(Cache) ELSE Cache
       IN  /\ EntIds \ Live(c1.keyMap, c1.freqMap, gent) # {}
           /\ LET ent == NewEnt(c1)
                  l1 == IF 1 \in DOMAIN c1.freqMap THEN c1.freqMap[1] ELSE <<>>
                  c2 == [c1 EXCEPT
                           !.ents[ent] = [key |-> k, value |-> v,
                                          frequency |-> 1, createdAt |-> now],
                           !.keyMap[k] = ent,
                           !.freqMap = PutBucket(c1.freqMap, 1, pushFront(l1, ent)),
                           !.size = c1.size + 1]
              IN  Commit(c2, gent, Touch(lru, ent))

\* The key is new: make room if the cache is full, then insert at frequency 1.
SetNew(k, v) ==
    /\ capacity # 0
    /\ keyMap[k] = Nil
    /\ LET c1 == IF Full(Cache) THEN evict(Cache) ELSE Cache
       IN  /\ EntIds \ Live(c1.keyMap, c1.freqMap, gent) # {}
           /\ LET ent == NewEnt(c1)
                  l1 == IF 1 \in DOMAIN c1.freqMap THEN c1.freqMap[1] ELSE <<>>
                  c2 == [c1 EXCEPT
                           !.ents[ent] = [key |-> k, value |-> v,
                                          frequency |-> 1, createdAt |-> now],
                           !.keyMap[k] = ent,
                           !.freqMap = PutBucket(c1.freqMap, 1, pushFront(l1, ent)),
                           !.minFreq = 1,
                           !.size = c1.size + 1]
              IN  Commit(c2, gent, Touch(lru, ent))

Set(k, v) ==
    /\ panic = ""
    /\ calls < Budget(capacity)
    /\ calls' = calls + 1
    /\ last' = Step("Set", k, v)
    /\ ryw' = Written(k, v, 0)
    /\ \/ SetDisabled(k, v)
       \/ SetExisting(k, v)
       \/ SetNew(k, v)
    /\ UNCHANGED <<capacity, ttl, onEvict, hits, misses, stop, sweeper, now,
                   pc, gkey>>

\* ------------------------------------------------------------------- Get
\* A miss that is not counted.
MissNotCounted == misses

\* c.misses.Add(1)
MissCounted == misses + 1

\* A hit that is not counted.
HitNotCounted == hits

\* c.hits.Add(1)
HitCounted == hits + 1

\* The test with >= for >.
ExpiredAtTTL(e) == now - ents[e].createdAt >= ttl

\* time.Since(ent.createdAt) > c.ttl, as Get reads it with no lock held.
Expired(e) == now - ents[e].createdAt > ttl

\* The key is not in the map: the lookup, the test !ok and c.misses.Add(1)
\* touch nothing another goroutine's step depends on, so they are one step.
GetAbsent(k) ==
    /\ panic = ""
    /\ calls < Budget(capacity)
    /\ keyMap[k] = Nil
    /\ calls' = calls + 1
    /\ misses' = MissCounted
    /\ last' = Step("GetMiss", k, Zero)
    /\ ryw' = NoWrite
    /\ Commit(Cache, gent, lru)
    /\ UNCHANGED <<capacity, ttl, onEvict, hits, stop, sweeper, now, pc, gkey>>

\* c.mu.RLock(); ent, ok := c.keyMap[key]; c.mu.RUnlock(), with ok true.
\* Goroutines running Get are interchangeable: the lowest free one is taken.
GetLookup(g, k) ==
    /\ panic = ""
    /\ calls < Budget(capacity)
    /\ pc[g] = "idle"
    /\ \A h \in Getters : h < g => pc[h] # "idle"
    /\ keyMap[k] # Nil
    /\ calls' = calls + 1
    /\ pc' = [pc EXCEPT ![g] = "looked"]
    /\ gkey' = [gkey EXCEPT ![g] = k]
    /\ last' = Step("GetLookup", k, Zero)
    /\ ryw' = IF ryw.key = k /\ ryw.g = 0 THEN Written(k, ryw.val, g)
              ELSE NoWrite
    /\ Commit(Cache, [gent EXCEPT ![g] = keyMap[k]], lru)
    /\ UNCHANGED <<capacity, ttl, onEvict, hits, misses, stop, sweeper, now>>

\* if !ok || time.Since(ent.createdAt) > c.ttl, read with no lock held.
GetCheck(g) ==
    /\ panic = ""
    /\ pc[g] = "looked"
    /\ pc' = [pc EXCEPT ![g] =
                IF Expired(gent[g]) THEN "expired" ELSE "fresh"]
    /\ last' = Step("GetCheck", gkey[g], Zero)
    /\ ryw' = Alone(g)
    /\ Commit(Cache, gent, lru)
    /\ UNCHANGED <<capacity, ttl, onEvict, hits, misses, stop, sweeper, now,
                   gkey, calls>>

\* c.mu.Lock(); c.deleteKey(key, ent); c.mu.Unlock(); c.misses.Add(1);
\* return zero, false. A panic inside deleteKey ends the process before the
\* miss is counted and before anything is returned.
GetDelete(g) ==
    /\ panic = ""
    /\ pc[g] = "expired"
    /\ LET c1 == deleteKey(Cache, gkey[g], gent[g])
       IN  /\ Commit(c1, [gent EXCEPT ![g] = Nil], lru)
           /\ misses' = IF c1.panic = "" THEN MissCounted ELSE misses
           /\ last' = Step(IF c1.panic = "" THEN "GetMiss" ELSE "GetDelete",
                           gkey[g], Zero)
    /\ pc' = [pc EXCEPT ![g] = "idle"]
    /\ gkey' = [gkey EXCEPT ![g] = 0]
    /\ ryw' = NoWrite
    /\ UNCHANGED <<capacity, ttl, onEvict, hits, stop, sweeper, now, calls>>

\* A hit that also resets the entry's timestamp, as a Set does.
GetIncrementRefreshes(g) ==
    /\ panic = ""
    /\ pc[g] = "fresh"
    /\ pc' = [pc EXCEPT ![g] = "promoted"]
    /\ last' = Step("GetIncrement", gkey[g], Zero)
    /\ ryw' = Alone(g)
    /\ Commit(increment([Cache EXCEPT !.ents[gent[g]].createdAt = now],
                        gent[g]),
              gent, Touch(lru, gent[g]))
    /\ UNCHANGED <<capacity, ttl, onEvict, hits, misses, stop, sweeper, now,
                   gkey, calls>>

\* c.mu.Lock(); c.increment(ent); c.mu.Unlock()
GetIncrement(g) ==
    /\ panic = ""
    /\ pc[g] = "fresh"
    /\ pc' = [pc EXCEPT ![g] = "promoted"]
    /\ last' = Step("GetIncrement", gkey[g], Zero)
    /\ ryw' = Alone(g)
    /\ Commit(increment(Cache, gent[g]), gent, Touch(lru, gent[g]))
    /\ UNCHANGED <<capacity, ttl, onEvict, hits, misses, stop, sweeper, now,
                   gkey, calls>>

\* c.hits.Add(1); return ent.value, true
GetHit(g) ==
    /\ panic = ""
    /\ pc[g] = "promoted"
    /\ hits' = HitCounted
    /\ pc' = [pc EXCEPT ![g] = "idle"]
    /\ gkey' = [gkey EXCEPT ![g] = 0]
    /\ last' = Step("GetHit", gkey[g], ents[gent[g]].value)
    /\ ryw' = Alone(g)
    /\ Commit(Cache, [gent EXCEPT ![g] = Nil], lru)
    /\ UNCHANGED <<capacity, ttl, onEvict, misses, stop, sweeper, now, calls>>

\* ------------------------------------------------------ the cleanup loop
\* The orders a range over the map's keys may take.
Orders(S) ==
    {o \in [1..Cardinality(S) -> S] : \A i, j \in 1..Cardinality(S) :
                                          i # j => o[i] # o[j]}

\* The test with >= for >.
StaleAtTTL(c, e) == now - c.ents[e].createdAt >= ttl

\* now.Sub(ent.createdAt) > c.ttl, under the lock.
Stale(c, e) == now - c.ents[e].createdAt > ttl

\* for k, ent := range c.keyMap { if now.Sub(ent.createdAt) > c.ttl { ... } }
RECURSIVE cleanupFrom(_, _, _)
cleanupFrom(c, order, i) ==
    IF i > Len(order) \/ c.panic # "" THEN c
    ELSE LET k == order[i]
             ent == c.keyMap[k]
         IN  IF ent # Nil /\ Stale(c, ent)
             THEN cleanupFrom(deleteKey(c, k, ent), order, i + 1)
             ELSE cleanupFrom(c, order, i + 1)

\* case <-ticker.C: c.cleanupExpired()
cleanupExpired ==
    /\ panic = ""
    /\ sweeper = "Running"
    /\ \E order \in Orders({k \in Keys : keyMap[k] # Nil}) :
           Commit(cleanupFrom(Cache, order, 1), gent, lru)
    /\ last' = Step("cleanupExpired", 0, Zero)
    /\ ryw' = NoWrite
    /\ UNCHANGED <<capacity, ttl, onEvict, hits, misses, stop, sweeper, now,
                   pc, gkey, calls>>

\* case <-c.stop: ticker.Stop(); return
startCleanupLoopExit ==
    /\ panic = ""
    /\ sweeper = "Running"
    /\ stop
    /\ sweeper' = "Stopped"
    /\ last' = Step("startCleanupLoopExit", 0, Zero)
    /\ ryw' = NoWrite
    /\ Commit(Cache, gent, lru)
    /\ UNCHANGED <<capacity, ttl, onEvict, hits, misses, stop, now, pc, gkey, calls>>

\* close(c.stop): closing a closed channel panics.
Stop ==
    /\ panic = ""
    /\ calls < Budget(capacity)
    /\ calls' = calls + 1
    /\ last' = Step("Stop", 0, Zero)
    /\ ryw' = NoWrite
    /\ IF stop
       THEN Commit([Cache EXCEPT !.panic = CloseClosed], gent, lru)
       ELSE Commit(Cache, gent, lru)
    /\ stop' = TRUE
    /\ UNCHANGED <<capacity, ttl, onEvict, hits, misses, sweeper, now, pc, gkey>>

\* --------------------------------------------------------------- the clock
Tick ==
    /\ panic = ""
    /\ now < MaxTime
    /\ now' = now + 1
    /\ last' = Step("Tick", 0, Zero)
    /\ ryw' = ryw
    /\ Commit(Cache, gent, lru)
    /\ UNCHANGED <<capacity, ttl, onEvict, hits, misses, stop, sweeper, pc,
                   gkey, calls>>

\* V is a type parameter: the code never inspects a value. Each Set call is
\* given a value of its own, the call's number, so every value in the cache
\* names the call that wrote it.
Next ==
    \/ \E k \in KeysOf(capacity) : Set(k, calls + 1)
    \/ \E k \in KeysOf(capacity) : GetAbsent(k)
    \/ \E g \in Getters, k \in KeysOf(capacity) : GetLookup(g, k)
    \/ \E g \in Getters : GetCheck(g)
    \/ \E g \in Getters : GetDelete(g)
    \/ \E g \in Getters : GetIncrement(g)
    \/ \E g \in Getters : GetHit(g)
    \/ cleanupExpired
    \/ startCleanupLoopExit
    \/ Stop
    \/ Tick

Spec == Init /\ [][Next]_vars

\* Calls that do not overlap: while a Get is between its lookup and its
\* return, the only step taken is that Get's next one.
SeqNext ==
    /\ Next
    /\ \/ \A g \in Getters : pc[g] = "idle"
       \/ \E g \in Getters : pc[g] # "idle" /\ pc'[g] # pc[g]

SeqSpec == Init /\ [][SeqNext]_vars

\* c.size, read under the read lock.
LenOf == size

\* ----------------------------------------------------------- vocabulary
\* The keys in the map, and the entry of each.
Held == {k \in Keys : keyMap[k] # Nil}
Ent(k) == ents[keyMap[k]]

\* The keys a step takes out of the map, with the values they had.
RemovedKeys == {k \in Held : keyMap'[k] = Nil}
RemovedPairs == {<<k, Ent(k).value>> : k \in RemovedKeys}

Range(seq) == {seq[i] : i \in 1..Len(seq)}

\* C1: Len() <= capacity in every reachable state, whatever Sets, Gets and
\* cleanup passes came before and however they interleaved.
C1_CapacityBound == LenOf <= capacity

\* A Set of a new key into a full cache has just evicted and inserted.
C1_Witness ==
    /\ last.op = "Set"
    /\ capacity = MaxCap
    /\ LenOf = capacity
    /\ evictions > 0
    /\ Cardinality(Held) = capacity

\* The place of entry e in the touch order: the larger, the longer ago.
TouchAge(e) == CHOOSE i \in 1..Len(lru) : lru[i] = e

\* A step that is a Set of a key not in the map, with the cache full, in
\* which the eviction routine removed something.
SetEvicts ==
    /\ last'.op = "Set"
    /\ capacity # 0
    /\ keyMap[last'.key] = Nil
    /\ size >= capacity
    /\ evictions' = evictions + 1

\* Key k's entry is the least frequently used of the entries held, and the
\* least recently touched of those as rarely used as it.
IsVictim(k) ==
    \A j \in Held \ {k} :
        \/ Ent(k).frequency < Ent(j).frequency
        \/ /\ Ent(k).frequency = Ent(j).frequency
           /\ TouchAge(keyMap[k]) > TouchAge(keyMap[j])

\* C2: when Set of a new key into a full cache evicts, exactly one held
\* entry leaves the map, and it is the least frequently used one, the least
\* recently touched among equals.
C2_LFUEviction ==
    [][SetEvicts => \E k \in Held : RemovedKeys = {k} /\ IsVictim(k)]_vars

\* The age Get g's expiry test sees: the clock less the entry's timestamp,
\* which is the time of the latest Set of the entry.
Age(g) == now - ents[gent[g]].createdAt

\* Get g runs its expiry test in this step, or leaves the expired path.
Tests(g) == pc[g] = "looked" /\ pc'[g] # "looked"
LeavesExpired(g) == pc[g] = "expired" /\ pc'[g] # "expired"

\* C3 as stated: a Get whose test runs at or after t0 + T, t0 the time of
\* the entry's latest Set, takes the expired path and reports not-found.
C3_NotFoundFromTTL ==
    [][\A g \in Getters : Tests(g) /\ Age(g) >= ttl => pc'[g] = "expired"]_vars

\* C3 amended: a Get whose test runs after t0 + T takes the expired path,
\* and a Get whose test runs at t0 + T or before takes the found path. The
\* expired path never reports found and never counts a hit: it ends in the
\* return of not-found with one more miss, or in a panic inside deleteKey.
\* Only the found path promotes and reports found.
C3_NotFoundAfterTTL ==
    [][\A g \in Getters :
        /\ Tests(g) => (pc'[g] = "expired" <=> Age(g) > ttl)
        /\ Tests(g) => (pc'[g] = "fresh" <=> Age(g) <= ttl)
        /\ LeavesExpired(g) =>
              /\ pc'[g] = "idle"
              /\ hits' = hits
              /\ \/ /\ last' = Step("GetMiss", gkey[g], Zero)
                    /\ misses' = misses + 1
                    /\ panic' = ""
                 \/ /\ last' = Step("GetDelete", gkey[g], Zero)
                    /\ misses' = misses
                    /\ panic' = NilDeref
        /\ (pc'[g] = "promoted" /\ pc[g] # "promoted") => pc[g] = "fresh"
        /\ (last'.op = "GetHit" /\ pc'[g] # pc[g]) => pc[g] = "promoted"]_vars

\* A Get has just found its key expired, deleted it and returned not-found.
C3_Witness ==
    /\ last.op = "GetMiss"
    /\ Len(cbLog) = 1
    /\ last.key \notin Held
    /\ misses = 1
    /\ now > ttl

\* C4: every step raises the evictions counter by the number of entries it
\* takes out of the map and calls the registered callback once for each,
\* with its key and value; a step that removes nothing does neither.
C4_EvictionsAndCallbacks ==
    [][/\ evictions' = evictions + Cardinality(RemovedKeys)
       /\ Len(cbLog') = IF onEvict THEN Cardinality(RemovedKeys) ELSE 0
       /\ Range(cbLog') = IF onEvict THEN RemovedPairs ELSE {}]_vars

\* C5: the step that completes a Get adds one to hits if it returns found
\* and one to misses if it returns not-found, and leaves the other counter
\* alone; no other step changes either counter.
C5_HitsAndMisses ==
    [][IF last'.op = "GetHit"
       THEN hits' = hits + 1 /\ misses' = misses
       ELSE IF last'.op = "GetMiss"
       THEN misses' = misses + 1 /\ hits' = hits
       ELSE hits' = hits /\ misses' = misses]_vars

\* Both counters have counted: a hit, a miss on an absent key and a miss on
\* an expired one.
C5_Witness ==
    /\ hits >= 1
    /\ misses >= 2
    /\ evictions >= 1
    /\ last.op = "GetMiss"
    /\ Len(cbLog) = 1

\* C6: a second Stop() does not crash: the process never panics on closing
\* the closed channel.
C6_StopIdempotent == panic # CloseClosed

\* C7: a cleanup pass, which only a Running sweeper makes, removes every
\* entry whose age exceeds ttl and no other: size drops and evictions rises
\* by their number, the callback is called for each, and no expired entry
\* is left in the map.
C7_SweepRemovesExpired ==
    [][last'.op = "cleanupExpired" =>
        /\ sweeper = "Running"
        /\ panic' = ""
        /\ \A k \in Held :
              IF now - Ent(k).createdAt > ttl THEN keyMap'[k] = Nil
              ELSE keyMap'[k] = keyMap[k] /\ ents'[keyMap[k]] = Ent(k)
        /\ \A k \in Keys \ Held : keyMap'[k] = Nil
        /\ size' = size - Cardinality(RemovedKeys)
        /\ evictions' = evictions + Cardinality(RemovedKeys)
        /\ Len(cbLog') = IF onEvict THEN Cardinality(RemovedKeys) ELSE 0
        /\ Range(cbLog') = IF onEvict THEN RemovedPairs ELSE {}]_vars

\* A pass has just removed an expired entry and kept a fresh one, with no
\* Get ever called.
C7_Witness ==
    /\ last.op = "cleanupExpired"
    /\ Len(cbLog) = 1
    /\ Cardinality(Held) = 1
    /\ hits + misses = 0
    /\ \A g \in Getters : pc[g] = "idle"

\* C8: once Stop() has been called the process lives on, so that Get, Set
\* and Len keep working, and the sweeper is Stopped or about to be.
C8_StoppedAndAlive ==
    stop => /\ panic = ""
            /\ sweeper = "Stopped" \/ ENABLED startCleanupLoopExit

\* C8, the state machine alone: Running from construction, and once
\* Stopped, Stopped for good with no further pass.
C8_OneWay ==
    [][/\ sweeper \in {"Running", "Stopped"}
       /\ sweeper = "Stopped" =>
             sweeper' = "Stopped" /\ last'.op # "cleanupExpired"
       /\ sweeper' # sweeper => stop]_vars

\* C9: a Get that found its key in the map and expired removes that key's
\* entry and nothing else: the key leaves the map, size drops by 1, the
\* callback is called once with the key and its value, misses rises by 1,
\* the Get returns not-found, and every other entry keeps its value, its
\* frequency and its place in its bucket.
C9_LazyExpiry ==
    [][\A g \in Getters : LeavesExpired(g) =>
        /\ panic' = ""
        /\ gkey[g] \in Held
        /\ keyMap[gkey[g]] = gent[g]
        /\ RemovedKeys = {gkey[g]}
        /\ size' = size - 1
        /\ misses' = misses + 1
        /\ last' = Step("GetMiss", gkey[g], Zero)
        /\ cbLog' = IF onEvict THEN <<<<gkey[g], Ent(gkey[g]).value>>>> ELSE <<>>
        /\ \A j \in Held \ {gkey[g]} :
              keyMap'[j] = keyMap[j] /\ ents'[keyMap[j]] = Ent(j)
        /\ \A f \in DOMAIN freqMap :
              remove(freqMap[f], gent[g]) =
                  IF f \in DOMAIN freqMap' THEN freqMap'[f] ELSE <<>>]_vars

\* The step is Set(k, v) for a key k that is in the map.
SetsExisting(k) ==
    last'.op = "Set" /\ last'.key = k /\ capacity # 0 /\ k \in Held

\* C10: Set(k, v) on a key in the map gives its entry the value v, the
\* timestamp now and a frequency one higher; the map, size and the
\* evictions counter stay as they are, no callback is called, and every
\* other entry keeps its value and frequency.
C10_SetExisting ==
    [][\A k \in Keys : SetsExisting(k) =>
        /\ panic' = ""
        /\ keyMap' = keyMap
        /\ ents'[keyMap[k]] = [key |-> k, value |-> last'.val,
                               frequency |-> Ent(k).frequency + 1,
                               createdAt |-> now]
        /\ size' = size
        /\ evictions' = evictions
        /\ cbLog' = <<>>
        /\ \A j \in Held \ {k} : ents'[keyMap[j]] = Ent(j)]_vars

\* A full cache has just had a key updated at a later time than its insert,
\* over a value written by an earlier call.
C10_Witness ==
    /\ last.op = "Set"
    /\ capacity = 2
    /\ size = capacity
    /\ last.key \in Held
    /\ Ent(last.key).frequency = 2
    /\ Ent(last.key).createdAt > 0
    /\ Ent(last.key).value = last.val
    /\ evictions = 0

\* The step is a Get of key k that does not find k in the map.
MissesAbsent(k) == last' = Step("GetMiss", k, Zero) /\ pc' = pc

\* What the steps of the Get that follows Set(k, v) do, with no other call
\* in between: the lookup finds k; if the test runs at an age within ttl it
\* passes; the promotion removes nothing; and the Get returns (v, true) with
\* one more hit, size, evictions and the map as they were and no callback.
\* Nothing is said of a Get whose test ran at an age past ttl.
ReadsOwnWrite ==
    /\ (ryw.key # 0 /\ ryw.g = 0) => ~MissesAbsent(ryw.key)
    /\ \A g \in Getters : (ryw.g = g /\ pc[g] \in {"looked", "fresh", "promoted"}
                                     /\ pc'[g] # pc[g]) =>
          /\ gkey[g] = ryw.key
          /\ size' = size /\ evictions' = evictions /\ cbLog' = <<>>
          /\ keyMap' = keyMap
          /\ (Tests(g) /\ Age(g) <= ttl) => pc'[g] = "fresh"
          /\ pc[g] = "fresh" =>
                /\ panic' = ""
                /\ pc'[g] = "promoted"
                /\ hits' = hits /\ misses' = misses
          /\ pc[g] = "promoted" =>
                /\ last' = Step("GetHit", ryw.key, ryw.val)
                /\ hits' = hits + 1
                /\ misses' = misses

\* C11 as stated, for a cache of any capacity: Set(k, v) followed at once
\* by Get(k), at an age within ttl, returns (v, true), adds one hit and
\* leaves Len, the evictions counter and the callback alone.
C11_ReadYourWrite == [][ReadsOwnWrite]_vars

\* C11 amended: the same in a cache whose capacity is not 0.
C11_ReadYourWriteNonZero == [][capacity # 0 => ReadsOwnWrite]_vars

\* A Get that followed a Set into a full cache, after a clock tick and with
\* another Get in flight, has just returned the value written.
C11_Witness ==
    /\ last.op = "GetHit"
    /\ ryw.g # 0
    /\ last = Step("GetHit", ryw.key, ryw.val)
    /\ size = capacity
    /\ capacity = MaxCap
    /\ hits = 1
    /\ now > Ent(ryw.key).createdAt
    /\ \E g \in Getters : pc[g] # "idle"

\* C12: with capacity 0 the cache stays empty whatever is called: Len() is
\* 0, the map and the frequency index are empty, nothing was ever evicted or
\* reported to the callback, and no Get found its key: none got past its
\* lookup and none counted a hit.
C12_CapacityZero ==
    capacity = 0 =>
        /\ LenOf = 0
        /\ Held = {}
        /\ DOMAIN freqMap = {}
        /\ Linked(freqMap) = {}
        /\ evictions = 0
        /\ cbLog = <<>>
        /\ hits = 0
        /\ \A g \in Getters : pc[g] = "idle"
        /\ last.op \notin {"GetLookup", "GetCheck", "GetIncrement", "GetHit",
                           "GetDelete"}
        /\ panic # NilDeref

\* A cache of capacity 0 has been Set after a Get missed, with the clock
\* advanced and the sweeper stopped.
C12_Witness ==
    /\ capacity = 0
    /\ last.op = "Set"
    /\ misses >= 1
    /\ now > 0
    /\ sweeper = "Stopped"

\* The entries the map holds.
HeldEnts == {keyMap[k] : k \in Held}

\* Get g takes its locked step in this step: the promotion or the deletion.
Promotes(g) == pc[g] = "fresh" /\ pc'[g] # "fresh"
ActsLocked(g) == Promotes(g) \/ LeavesExpired(g)

\* C13: the locked step of a Get acts on an entry that is still the entry
\* of its key in the map; it does not panic on a missing bucket; and after
\* a promotion the buckets link no entry that the map does not hold.
C13_GetActsOnHeldEntry ==
    [][\A g \in Getters : ActsLocked(g) =>
          /\ keyMap[gkey[g]] = gent[g]
          /\ panic' # NilDeref
          /\ Promotes(g) => Linked(freqMap') \subseteq {keyMap'[k] : k \in Keys}]_vars

\* The latest step was the deletion of another Get or a sweeper pass, and it
\* removed the entry that Get g holds: its callback was called with the
\* entry's key and value.
RemovedByLatest(g) ==
    /\ onEvict
    /\ last.op \in {"GetMiss", "cleanupExpired"}
    /\ <<gkey[g], ents[gent[g]].value>> \in Range(cbLog)
    /\ gent[g] \notin HeldEnts

\* C14: an expired entry that another Get or a sweeper pass has just removed
\* is not removed again by the Get that races with it: that Get's deletion
\* step does not panic, leaves size and the evictions counter alone and
\* calls no callback; and size never goes below 0.
C14_RemovedOnce ==
    [][/\ size' >= 0
       /\ \A g \in Getters : (LeavesExpired(g) /\ RemovedByLatest(g)) =>
             /\ panic' = ""
             /\ size' = size
             /\ evictions' = evictions
             /\ cbLog' = <<>>]_vars

\* The places entry e has in the bucket of frequency f.
Places(f, e) == {i \in 1..Len(freqMap[f]) : freqMap[f][i] = e}

\* Every entry of the map is once in the bucket of its frequency, which is
\* at least 1, and in no other bucket.
HeldAreLinked ==
    \A k \in Held :
        /\ Ent(k).frequency >= 1
        /\ Ent(k).frequency \in DOMAIN freqMap
        /\ \A f \in DOMAIN freqMap :
              Cardinality(Places(f, keyMap[k])) =
                  IF f = Ent(k).frequency THEN 1 ELSE 0

\* Every element of every bucket is an entry of the map.
LinkedAreHeld == Linked(freqMap) \subseteq HeldEnts

\* The frequency index keeps no empty bucket.
NoEmptyBucket == \A f \in DOMAIN freqMap : ~isEmpty(freqMap[f])

\* C15: after every operation every entry of the map is in exactly one
\* bucket, that of its frequency (at least 1); every element of every
\* bucket is an entry of the map; and no bucket is empty.
C15_BucketMembership == HeldAreLinked /\ LinkedAreHeld /\ NoEmptyBucket

\* Entry e is alone in the bucket at minFreq, which is that of its
\* frequency: taking it out empties the bucket.
EmptiesMin(e) ==
    /\ ents[e].frequency = minFreq
    /\ minFreq \in DOMAIN freqMap
    /\ freqMap[minFreq] = <<e>>

\* The step promotes an entry, in a Get or in a Set of a key in the map, out
\* of the bucket at minFreq, which it empties, and adds 1 to minFreq.
PromotionRaises ==
    /\ minFreq' = minFreq + 1
    /\ \/ \E g \in Getters : Promotes(g) /\ EmptiesMin(gent[g])
       \/ \E k \in Held : SetsExisting(k) /\ EmptiesMin(keyMap[k])

\* The step inserts the first key: minFreq goes from 0, its value in New, to
\* 1, as every insert of a new key sets it.
InsertSetsOne ==
    /\ last'.op = "Set" /\ last'.key \notin Held
    /\ minFreq = 0 /\ minFreq' = 1

\* The step removes expired entries through deleteKey, in a Get or in a
\* sweeper pass, and empties the bucket at minFreq.
ExpiryRaises ==
    \/ /\ minFreq' = minFreq + 1
       /\ \E g \in Getters : LeavesExpired(g) /\ EmptiesMin(gent[g])
    \/ /\ last'.op = "cleanupExpired"
       /\ minFreq \in DOMAIN freqMap
       /\ \A i \in 1..Len(freqMap[minFreq]) :
             \E k \in RemovedKeys : keyMap[k] = freqMap[minFreq][i]

\* C16 as stated: a step that raises minFreq is a promotion out of the
\* emptied bucket at minFreq (or the first insert, which sets it to 1); no
\* removal raises it.
C16_RaisedByPromotionOnly ==
    [][minFreq' > minFreq => PromotionRaises \/ InsertSetsOne]_vars

\* C16 amended: a step that raises minFreq is a promotion out of the emptied
\* bucket at minFreq, the first insert, or a removal of expired entries
\* through deleteKey that empties the bucket at minFreq; a Set that evicts
\* for capacity leaves minFreq at 1.
C16_RaisedByPromotionOrExpiry ==
    [][/\ minFreq' > minFreq =>
             PromotionRaises \/ InsertSetsOne \/ ExpiryRaises
       /\ SetEvicts => minFreq' = 1]_vars

\* A sweeper pass has just removed the only entry of frequency 1 and raised
\* minFreq to 2, the frequency of the entry that stays.
C16_Witness ==
    /\ last.op = "cleanupExpired"
    /\ Len(cbLog) = 1
    /\ minFreq = 2
    /\ \E k \in Held : Ent(k).frequency = 2

\* minFreq is at most the frequency of every entry of the map.
MinNotOverstated == \A k \in Held : minFreq <= Ent(k).frequency

\* The step is a Set of a key not in the map that finds size = capacity > 0.
SetFindsFull ==
    /\ last'.op = "Set"
    /\ last'.key \notin Held
    /\ capacity > 0
    /\ size = capacity

\* The entry at the back of the bucket at minFreq.
Victim == ents[Oldest(freqMap[minFreq])]

C18_GetKeepsTimestamp ==
    [][/\ \A e \in EntIds : ents'[e].createdAt # ents[e].createdAt =>
             \/ ents'[e] = NoEnt
             \/ /\ last'.op = "Set"
                /\ ents'[e].key = last'.key
                /\ ents'[e].createdAt = now
       /\ \A g \in Getters :
             /\ Promotes(g) =>
                   ents'[gent[g]] =
                       [ents[gent[g]] EXCEPT !.frequency = @ + 1]
             /\ (pc'[g] # pc[g] /\ ~Promotes(g)) =>
                   \A e \in EntIds : ents'[e] \in {ents[e], NoEnt}
             /\ Tests(g) =>
                   (pc'[g] = "expired" <=>
                        now - ents[gent[g]].createdAt > ttl)]_vars

\* The second Get of a key has just found it expired: its one Set was
\* followed by a Get that hit, and the entry still aged out.
C18_Witness ==
    /\ last.op = "GetMiss"
    /\ calls = 3
    /\ hits = 1
    /\ misses = 1
    /\ evictions = 1
    /\ cbLog = <<<<last.key, 1>>>>
    /\ \A g \in Getters : pc[g] = "idle"

\* The number of elements of all the buckets.
RECURSIVE SumLen(_, _)
SumLen(fm, F) ==
    IF F = {} THEN 0
    ELSE LET f == CHOOSE x \in F : TRUE
         IN  Len(fm[f]) + SumLen(fm, F \ {f})

BucketElements == SumLen(freqMap, DOMAIN freqMap)

\* C19: in every reachable state the size that Len() reports is the number
\* of keys in the map and the number of elements of all the buckets, and so
\* the map never holds more than capacity keys.
C19_SizeIsKeyCount ==
    /\ LenOf = Cardinality(Held)
    /\ LenOf = BucketElements
    /\ Cardinality(Held) <= capacity

\* The step removes entries as expired: the deletion of a Get or a sweeper
\* pass.
RemovesExpired == last'.op \in {"GetMiss", "GetDelete", "cleanupExpired"}

\* C20: every entry that a step removes from the map as expired has, at that
\* step, an age above ttl: a Get that looked its entry up before a Set
\* refreshed it does not delete the refreshed entry.
C20_RemovedOnlyWhenExpired ==
    [][RemovesExpired =>
          \A k \in RemovedKeys : now - Ent(k).createdAt > ttl]_vars

====
